---- MODULE Spec2Model ----
(***************************************************************************)
(* Model of caen_setup.setup.handler.Handler: the directory of boards and  *)
(* channels it keeps in its SQLAlchemy store (SetupDB.py), the refresh     *)
(* policy of the channel parameters, the voltage controller, and the       *)
(* hardware adapters (fake_board.py, caen_board.py) it drives.             *)
(*                                                                         *)
(* Optional[T] values are sequences: None is <<>>, a value x is <<x>>.     *)
(* Voltage multipliers are carried in tenths (m10 = 12 is 1.2), so that    *)
(* def_volt * m is exact integer arithmetic for the configured voltages.   *)
(***************************************************************************)
EXTENDS Integers, Sequences, FiniteSets, TLC

VARIABLES
    phase,       \* "new": no Handler yet; "live": __init__ returned;
                 \* "raised": __init__ raised; "deleted": __del__ has run
    fake_board,  \* Handler.BoardCAEN is FakeBoard (TRUE) or BoardCAEN (FALSE)
    foreign_keys,\* whether the SQLite connection enforces foreign keys (the
                 \* source never sets the pragma: it is the build's default)
    Board,       \* table boards:   address -> [conet, link, handler]
    Channel,     \* table channels: <<board_address, channel>> -> row
    hw,          \* the hardware: <<handle, channel>> -> [VSet, Pw]
    now,         \* datetime.now(), in ticks
    pending,     \* the last operation's result is still with the model:
                 \* the caller has not taken it yet
    lastOp,      \* the last operation called
    args,        \* its arguments
    ret,         \* what it returned or raised
    log,         \* the hardware adapter calls it made, in order
    other        \* a second Handler of the same process: its phase and the
                 \* boards and channels tables of its own in-memory store

vars ==
    <<phase, fake_board, foreign_keys, Board, Channel, hw, now, pending,
      lastOp, args, ret, log, other>>

None == <<>>
Some(x) == <<x>>

----------------------------------------------------------------------------
(* Bounds and program constants *)

\* the clock stops at MaxTime
MaxTime == 2
\* at most MaxFaults channels or boards have failing hardware calls during
\* one operation
MaxFaults == 1
\* Handler.refresh_time, the constructor's refresh_time argument, in ticks
RefreshTime == 1
\* Handler.__init__ defaults ramp_up and ramp_down
RampUp == 10
RampDown == 100
\* ISet written for a layer without default_max_current
DefaultMaxCurrent == 50
\* ("Trip", 0.2), in tenths
Trip10 == 2

\* Channel_info.par_names
par_names ==
    {"VSet", "ISet", "VMon", "IMonH", "Pw", "ChStatus", "Trip", "SVMax",
     "RDWn", "RUp", "PDwn", "Polarity", "Temp", "ImonRange", "IMonL"}

\* json_file["default_voltages"] and json_file["default_max_current"] of the
\* configuration file, keyed by layer
default_voltages == (1 :> 1000) @@ (2 :> 2000)
default_max_current == (1 :> 20)

\* _Channel_LayerPair and Board_info as Board_info.from_json builds them
ChannelLayerPair(ch, alias, layer) ==
    [channel |-> ch, alias |-> alias, layer |-> layer]
BoardInfo(address, conet, link, handler, channels) ==
    [board_address |-> address, conet |-> conet, link |-> link,
     handler |-> handler, channels |-> channels]

\* The configurations (the board_info part of the configuration file)
Configs ==
    { << BoardInfo(1, 0, 0, None, << ChannelLayerPair(0, "a0", 1),
                                     ChannelLayerPair(1, "a1", 2) >>) >>,
      << BoardInfo(1, 0, 0, None, << ChannelLayerPair(0, "b0", 2) >>),
         BoardInfo(2, 0, 0, None, << ChannelLayerPair(0, "b0", -1) >>) >>,
      << BoardInfo(2, 1, 0, None, << ChannelLayerPair(0, "c0", 3) >>) >> }

Addresses == UNION {{c[i].board_address : i \in DOMAIN c} : c \in Configs}
\* voltage multipliers in tenths: 0, 0.5, 1.2 and the rejected -0.1, 1.3
Multipliers == {-1, 0, 5, 12, 13}

----------------------------------------------------------------------------
(* Helpers *)

\* float("nan"): the float that no comparison holds of.  It is carried as a
\* number no voltage, multiplier or rate has, and every comparison and
\* product it enters is spelled out where it is made
nan == -1000000

Range(s) == {s[i] : i \in DOMAIN s}

Min(S) == CHOOSE x \in S : \A y \in S : x <= y
Max(S) == CHOOSE x \in S : \A y \in S : x >= y

\* rows come back from the store in primary-key order
KeyLess(k1, k2) == k1[1] < k2[1] \/ (k1[1] = k2[1] /\ k1[2] < k2[2])

RECURSIVE KeySeq(_)
KeySeq(S) ==
    IF S = {} THEN <<>>
    ELSE LET k == CHOOSE x \in S : \A y \in S \ {x} : KeyLess(x, y)
         IN  <<k>> \o KeySeq(S \ {k})

RECURSIVE IntSeq(_)
IntSeq(S) ==
    IF S = {} THEN <<>>
    ELSE <<Min(S)>> \o IntSeq(S \ {Min(S)})

\* Python's round() of the rational n/d (d > 0, n >= 0): half to even
Round(n, d) ==
    LET q == n \div d
        r == n % d
    IN  IF 2 * r < d THEN q
        ELSE IF 2 * r > d THEN q + 1
        ELSE IF q % 2 = 0 THEN q ELSE q + 1

----------------------------------------------------------------------------
(* The store: SetupDB.Board and SetupDB.Channel rows *)

\* a Channel row as __reserve_board_channels inserts it: every parameter
\* column and last_update are NULL
NewChannel(pair) ==
    [alias |-> pair.alias, layer |-> pair.layer, last_update |-> None,
     par |-> [p \in par_names |-> None]]

\* select(Channel, Board).join(Board): the channels whose board row exists
Joined(st) == {k \in DOMAIN st.Channel : k[1] \in DOMAIN st.Board}

\* Board.channels (the relationship) as Board_info.from_db_object reads it
BoardChannels(C, address) ==
    LET ks == KeySeq({k \in DOMAIN C : k[1] = address})
    IN  [i \in 1..Len(ks) |->
            ChannelLayerPair(ks[i][2], C[ks[i]].alias, C[ks[i]].layer)]

get_boards(st) ==
    LET as == IntSeq(DOMAIN st.Board)
    IN  [i \in 1..Len(as) |->
            BoardInfo(as[i], st.Board[as[i]].conet, st.Board[as[i]].link,
                      st.Board[as[i]].handler,
                      BoardChannels(st.Channel, as[i]))]

get_board_handler(st, board) ==
    IF /\ board.board_address \in DOMAIN st.Board
       /\ st.Board[board.board_address].conet = board.conet
       /\ st.Board[board.board_address].link = board.link
    THEN st.Board[board.board_address].handler
    ELSE None

\* session.merge(Board(...)) followed by update(Board): an upsert by address
fill_board_handler(st, board) ==
    [st EXCEPT !.Board =
        [a \in DOMAIN @ \cup {board.board_address} |->
            IF a = board.board_address
            THEN [conet |-> board.conet, link |-> board.link,
                  handler |-> board.handler]
            ELSE @[a]]]

\* delete(Board).where(Board.handler.is_(None)); the channels of a deleted
\* board go with it only when the connection enforces ON DELETE CASCADE
remove_none_boards(st) ==
    LET gone == {a \in DOMAIN st.Board : st.Board[a].handler = None}
        keepB == DOMAIN st.Board \ gone
        keepC == IF foreign_keys
                 THEN {k \in DOMAIN st.Channel : k[1] \notin gone}
                 ELSE DOMAIN st.Channel
    IN  [st EXCEPT !.Board = [a \in keepB |-> st.Board[a]],
                   !.Channel = [k \in keepC |-> st.Channel[k]]]

\* delete(Board); delete(Channel)
remove_DB_records(st) ==
    [st EXCEPT !.Board = << >>, !.Channel = << >>]

\* drop the board's Channel rows, then session.merge each configured one
\* (a later pair with the same channel number overwrites an earlier one);
\* an IntegrityError (no such board, foreign keys enforced) rolls the
\* inserts back
reserve_board_channels(st, board_info) ==
    LET addr == board_info.board_address
        chs == board_info.channels
        kept == {k \in DOMAIN st.Channel : k[1] # addr}
        nums == {chs[i].channel : i \in DOMAIN chs}
        last(n) == chs[Max({i \in DOMAIN chs : chs[i].channel = n})]
        new == IF foreign_keys /\ addr \notin DOMAIN st.Board
               THEN {}
               ELSE {<<addr, n>> : n \in nums}
    IN  [st EXCEPT !.Channel =
            [k \in kept \cup new |->
                IF k \in kept THEN st.Channel[k] ELSE NewChannel(last(k[2]))]]

\* Handler.__remove_board
remove_board(st, board) ==
    remove_none_boards(
        fill_board_handler(st, [board EXCEPT !.handler = None]))

----------------------------------------------------------------------------
(* The hardware adapters: FakeBoard and BoardCAEN *)

\* No adapter call raises
NoFault == [init |-> {}, deinit |-> {}, set |-> {}, get |-> {}]

\* The adapter calls that raise during one operation: Initialize and
\* Deinitialize of the addresses in init and deinit, SetParameters and
\* GetParameters of the channels in set and get.  A raising call changes
\* nothing on the hardware.  FakeBoard raises in one case only, which is
\* not drawn here (see update_parameters).
Faults(inits, deinits, keys) ==
    IF fake_board THEN {NoFault}
    ELSE {o \in [init : SUBSET inits, deinit : SUBSET deinits,
                 set : SUBSET keys, get : SUBSET keys] :
            Cardinality(o.init) + Cardinality(o.deinit)
                + Cardinality(o.set \cup o.get) <= MaxFaults}

\* FakeBoard.initialize: int(f"{address}{conet}{link}"), one digit each
initialize(address, conet, link) == address * 100 + conet * 10 + link

HwRow(h, handle, ch) ==
    IF <<handle, ch>> \in DOMAIN h THEN h[<<handle, ch>>]
    ELSE [VSet |-> 0, Pw |-> 0]

\* one (name, value) pair of set_parameters: FakeBoard keeps VSet alone,
\* the board keeps VSet and Pw (the other names are not modelled as state)
SetOne(h, handle, ch, pair) ==
    LET row == HwRow(h, handle, ch)
        new == IF pair[1] = "VSet" THEN [row EXCEPT !.VSet = pair[2]]
               ELSE IF pair[1] = "Pw" /\ ~fake_board
                    THEN [row EXCEPT !.Pw = pair[2]]
               ELSE row
    IN  IF new = row /\ <<handle, ch>> \notin DOMAIN h THEN h
        ELSE [k \in DOMAIN h \cup {<<handle, ch>>} |->
                IF k = <<handle, ch>> THEN new ELSE h[k]]

RECURSIVE adapter_set(_, _, _, _)
adapter_set(h, handle, ch, params) ==
    IF params = <<>> THEN h
    ELSE adapter_set(SetOne(h, handle, ch, Head(params)), handle, ch,
                     Tail(params))

\* get_parameters for one channel and all of par_names
adapter_get(h, handle, ch) ==
    [p \in par_names |->
        IF p = "VSet" THEN HwRow(h, handle, ch).VSet
        ELSE IF p = "Pw" THEN HwRow(h, handle, ch).Pw
        ELSE 0]

----------------------------------------------------------------------------
(* Parameter refresh policy *)

\* a float as the Channel row keeps it: SQLite stores nan as NULL
Stored(v) == IF v = nan THEN None ELSE Some(v)

\* a write that reports success whatever the adapter did
set_parameters_reports_success(st, k, params, o) ==
    IF k \notin Joined(st) THEN [st |-> st, ok |-> FALSE]
    ELSE LET handle == st.Board[k[1]].handler
             raised == k \in o.set
             n == IF raised THEN 0 ELSE Len(params)
         IN  [st |-> [st EXCEPT
                        !.hw = adapter_set(@, handle, k[2],
                                           SubSeq(params, 1, n)),
                        !.log = Append(@, [call |-> "set", handle |-> handle,
                                           address |-> k[1],
                                           channel |-> k[2],
                                           params |-> params,
                                           raised |-> raised])],
              ok |-> TRUE]

\* a write that also puts the values it wrote into the Channel row
set_parameters_writes_through(st, k, params, o) ==
    IF k \notin Joined(st) THEN [st |-> st, ok |-> FALSE]
    ELSE LET handle == st.Board[k[1]].handler
             raised == k \in o.set
             n == IF raised THEN 0 ELSE Len(params)
             written(p) == {params[i][2] : i \in {j \in 1..n : params[j][1] = p}}
         IN  [st |-> [st EXCEPT
                        !.hw = adapter_set(@, handle, k[2],
                                           SubSeq(params, 1, n)),
                        !.Channel[k].par =
                            [p \in par_names |->
                                IF written(p) # {}
                                THEN Some(CHOOSE v \in written(p) : TRUE)
                                ELSE @[p]],
                        !.log = Append(@, [call |-> "set", handle |-> handle,
                                           address |-> k[1],
                                           channel |-> k[2],
                                           params |-> params,
                                           raised |-> raised])],
              ok |-> ~raised]

\* Handler.__set_parameters
set_parameters(st, k, params, o) ==
    IF k \notin Joined(st) THEN [st |-> st, ok |-> FALSE]
    ELSE LET handle == st.Board[k[1]].handler
             raised == k \in o.set
             n == IF raised THEN 0 ELSE Len(params)
         IN  [st |-> [st EXCEPT
                        !.hw = adapter_set(@, handle, k[2],
                                           SubSeq(params, 1, n)),
                        !.log = Append(@, [call |-> "set", handle |-> handle,
                                           address |-> k[1],
                                           channel |-> k[2],
                                           params |-> params,
                                           raised |-> raised])],
              ok |-> ~raised]

\* a refresh that stamps the row even when the read failed
update_parameters_stamps_failure(st, k, o, t) ==
    IF k \notin Joined(st) THEN st
    ELSE LET handle == st.Board[k[1]].handler
             raised == \/ k \in o.get
                       \/ fake_board /\ HwRow(st.hw, handle, k[2]).VSet = nan
             entry == [call |-> "get", handle |-> handle, address |-> k[1],
                       channel |-> k[2], params |-> <<>>,
                       raised |-> raised]
             read == adapter_get(st.hw, handle, k[2])
         IN  IF raised THEN [st EXCEPT !.log = Append(@, entry),
                                       !.Channel[k].last_update = Some(t)]
             ELSE [st EXCEPT
                     !.log = Append(@, entry),
                     !.Channel[k].par = [p \in par_names |-> Stored(read[p])],
                     !.Channel[k].last_update = Some(t)]

\* a refresh whose UPDATE matches on the channel number alone
update_parameters_by_channel_number(st, k, o, t) ==
    IF k \notin Joined(st) THEN st
    ELSE LET handle == st.Board[k[1]].handler
             raised == \/ k \in o.get
                       \/ fake_board /\ HwRow(st.hw, handle, k[2]).VSet = nan
             entry == [call |-> "get", handle |-> handle, address |-> k[1],
                       channel |-> k[2], params |-> <<>>,
                       raised |-> raised]
             read == adapter_get(st.hw, handle, k[2])
         IN  IF raised THEN [st EXCEPT !.log = Append(@, entry)]
             ELSE [st EXCEPT
                     !.log = Append(@, entry),
                     !.Channel = [j \in DOMAIN @ |->
                         IF j[2] = k[2]
                         THEN [@[j] EXCEPT
                                 !.par = [p \in par_names |-> Stored(read[p])],
                                 !.last_update = Some(t)]
                         ELSE @[j]]]

\* Handler.__update_parameters
update_parameters(st, k, o, t) ==
    IF k \notin Joined(st) THEN st
    ELSE LET handle == st.Board[k[1]].handler
             raised == \/ k \in o.get
                       \/ fake_board /\ HwRow(st.hw, handle, k[2]).VSet = nan
             entry == [call |-> "get", handle |-> handle, address |-> k[1],
                       channel |-> k[2], params |-> <<>>,
                       raised |-> raised]
             read == adapter_get(st.hw, handle, k[2])
         IN  IF raised THEN [st EXCEPT !.log = Append(@, entry)]
             ELSE [st EXCEPT
                     !.log = Append(@, entry),
                     !.Channel[k].par = [p \in par_names |-> Stored(read[p])],
                     !.Channel[k].last_update = Some(t)]

\* a staleness test that already fires at the refresh time
Stale_at_refresh_time(row, t) ==
    \/ row.last_update = None
    \/ t - row.last_update[1] >= RefreshTime

\* the staleness test of Handler.__get_parameters
Stale(row, t) ==
    \/ row.last_update = None
    \/ t - row.last_update[1] > RefreshTime

\* a read that answers with the empty columns for a channel it did not find
get_parameters_without_lookup(st, k, o, t) ==
    IF k \notin Joined(st)
    THEN [st |-> st, res |-> Some([p \in par_names |-> None])]
    ELSE LET st2 == IF Stale(st.Channel[k], t)
                    THEN update_parameters(st, k, o, t)
                    ELSE st
         IN  [st |-> st2, res |-> Some(st2.Channel[k].par)]

\* Handler.__get_parameters
get_parameters(st, k, o, t) ==
    IF k \notin Joined(st) THEN [st |-> st, res |-> None]
    ELSE LET st2 == IF Stale(st.Channel[k], t)
                    THEN update_parameters(st, k, o, t)
                    ELSE st
         IN  [st |-> st2, res |-> Some(st2.Channel[k].par)]

----------------------------------------------------------------------------
(* Voltage / ramp controller *)

\* self.__default_voltages.get(str(layer), 0.0)
DefVolt(layer) ==
    IF layer \in DOMAIN default_voltages THEN default_voltages[layer] ELSE 0

\* self.__max_default_voltage
max_default_voltage == Max(Range(default_voltages))

\* ramps that are scaled for the unlayered group (layer -1) too
VoltageParams_scales_sentinel(layer, m10) ==
    LET def_volt == DefVolt(layer)
        voltage == IF m10 = nan THEN nan ELSE (def_volt * m10) \div 10
    IN  << <<"VSet", voltage>>,
           <<"RUp", Round(RampUp * def_volt, max_default_voltage)>>,
           <<"RDown", Round(RampDown * def_volt, max_default_voltage)>> >>

\* the pairs set_voltage writes to a channel of `layer`
VoltageParams(layer, m10) ==
    LET def_volt == DefVolt(layer)
        voltage == IF m10 = nan THEN nan ELSE (def_volt * m10) \div 10
        ramp_up == IF layer # -1
                   THEN Round(RampUp * def_volt, max_default_voltage)
                   ELSE RampUp
        ramp_down == IF layer # -1
                     THEN Round(RampDown * def_volt, max_default_voltage)
                     ELSE RampDown
    IN  << <<"VSet", voltage>>, <<"RUp", ramp_up>>, <<"RDown", ramp_down>> >>

\* a startup list that also switches the channel on
StartupParams_powers_on(layer) ==
    << <<"ImonRange", 0>>, <<"ISet", DefaultMaxCurrent>>, <<"Trip", Trip10>>,
       <<"RUp", RampUp>>, <<"RDWn", RampDown>>, <<"PDwn", 1>>, <<"Pw", 1>> >>

\* the pairs Handler.__init__ writes to a channel of `layer`
StartupParams(layer) ==
    LET max_current == IF layer \in DOMAIN default_max_current
                       THEN default_max_current[layer]
                       ELSE DefaultMaxCurrent
    IN  << <<"ImonRange", 0>>, <<"ISet", max_current>>, <<"Trip", Trip10>>,
           <<"RUp", RampUp>>, <<"RDWn", RampDown>>, <<"PDwn", 1>> >>

PwDownParams == << <<"VSet", 0>>, <<"Pw", 0>>, <<"RDown", 100>> >>
PwUpParams == << <<"Pw", 1>> >>

\* __get_channels() when layer is None, else __get_channels_by_layer(layer)
SelectChannels(st, layer) ==
    IF layer = None THEN KeySeq(Joined(st))
    ELSE KeySeq({k \in Joined(st) : st.Channel[k].layer = layer[1]})

\* for ch in channels: self.__set_parameters(channel_info, P[ch])
RECURSIVE set_each(_, _, _, _)
set_each(st, keys, P, o) ==
    IF keys = <<>> THEN st
    ELSE set_each(set_parameters(st, Head(keys), P[Head(keys)], o).st,
                  Tail(keys), P, o)

\* list(map(self.__update_parameters, ch_info_list))
RECURSIVE update_each(_, _, _, _)
update_each(st, keys, o, t) ==
    IF keys = <<>> THEN st
    ELSE update_each(update_parameters(st, Head(keys), o, t),
                     Tail(keys), o, t)

\* Handler.pw_up
pw_up(st, layer, o, t) ==
    LET keys == SelectChannels(st, layer)
        st2 == set_each(st, keys, [k \in Range(keys) |-> PwUpParams], o)
    IN  update_each(st2, keys, o, t)

\* Handler.pw_down
pw_down(st, layer, o, t) ==
    LET keys == SelectChannels(st, layer)
        st2 == set_each(st, keys, [k \in Range(keys) |-> PwDownParams], o)
    IN  update_each(st2, keys, o, t)

\* a set_voltage that checks the lower limit only
set_voltage_no_upper_limit(st, layer, m10, o, t) ==
    IF m10 # nan /\ m10 < 0 THEN [st |-> st, exc |-> Some("ValueError")]
    ELSE LET keys == SelectChannels(st, layer)
             P == [k \in Range(keys) |->
                     VoltageParams(st.Channel[k].layer, m10)]
         IN  [st |-> pw_up(set_each(st, keys, P, o), layer, o, t),
              exc |-> None]

\* Handler.set_voltage
set_voltage(st, layer, m10, o, t) ==
    IF m10 # nan /\ (m10 < 0 \/ m10 > 12)
    THEN [st |-> st, exc |-> Some("ValueError")]
    ELSE LET keys == SelectChannels(st, layer)
             P == [k \in Range(keys) |->
                     VoltageParams(st.Channel[k].layer, m10)]
         IN  [st |-> pw_up(set_each(st, keys, P, o), layer, o, t),
              exc |-> None]

\* Handler.get_params
RECURSIVE get_each(_, _, _, _, _)
get_each(r, keys, requested, o, t) ==
    IF keys = <<>> THEN r
    ELSE LET k == Head(keys)
             row == r.st.Channel[k]
             g == get_parameters(r.st, k, o, t)
             names == (requested \cap par_names)
                         \cup (requested \cap {"VDef"})
             selected ==
                 IF g.res = None THEN None
                 ELSE Some([n \in names |->
                             IF n = "VDef" THEN Some(DefVolt(row.layer))
                             ELSE g.res[1][n]])
             entry == [channel |-> [alias |-> row.alias,
                                    channel_num |-> k[2],
                                    layer |-> row.layer,
                                    board_info |->
                                        [board_address |-> k[1],
                                         conet |-> r.st.Board[k[1]].conet,
                                         link |-> r.st.Board[k[1]].link]],
                       params |-> selected]
         IN  get_each([st |-> g.st, value |-> Append(r.value, entry)],
                      Tail(keys), requested, o, t)

\* a get_params whose default request leaves VDef out
get_params_without_VDef(st, layer, params, o, t) ==
    LET requested == IF params = None THEN par_names
                     ELSE params[1] \cap (par_names \cup {"VDef"})
    IN  get_each([st |-> st, value |-> <<>>], SelectChannels(st, layer),
                 requested, o, t)

get_params(st, layer, params, o, t) ==
    LET requested == IF params = None THEN par_names \cup {"VDef"}
                     ELSE params[1] \cap (par_names \cup {"VDef"})
    IN  get_each([st |-> st, value |-> <<>>], SelectChannels(st, layer),
                 requested, o, t)

----------------------------------------------------------------------------
(* Device directory *)

InitEntry(board, raised) ==
    [call |-> "init",
     handle |-> IF raised THEN None
                ELSE Some(initialize(board.board_address, board.conet,
                                     board.link)),
     address |-> board.board_address, channel |-> -1, params |-> <<>>,
     raised |-> raised]

DeinitEntry(board, raised) ==
    [call |-> "deinit", handle |-> board.handler,
     address |-> board.board_address, channel |-> -1, params |-> <<>>,
     raised |-> raised]

\* Handler.__add_board
add_board(st, info, o) ==
    IF get_board_handler(st, info) # None
    THEN [st |-> st, exc |-> Some("ValueError")]
    ELSE IF info.board_address \in o.init
    THEN [st |-> [st EXCEPT !.log = Append(@, InitEntry(info, TRUE))],
          exc |-> Some("InitError")]
    ELSE LET b == [info EXCEPT !.handler =
                      Some(initialize(info.board_address, info.conet,
                                      info.link))]
             st1 == [st EXCEPT !.log = Append(@, InitEntry(info, FALSE))]
         IN  [st |-> reserve_board_channels(fill_board_handler(st1, b), b),
              exc |-> None]

\* the first loop of Handler.__initialize_boards, over the cached boards
RECURSIVE init_cached(_, _, _, _)
init_cached(r, boards, config_board_addresses, o) ==
    IF boards = <<>> \/ r.exc # None THEN r
    ELSE LET board == Head(boards)
         IN  IF board.board_address \notin config_board_addresses
             THEN init_cached([st |-> remove_board(r.st, board),
                               exc |-> None],
                              Tail(boards), config_board_addresses, o)
             ELSE IF board.board_address \in o.init
             THEN [st |-> [r.st EXCEPT
                             !.log = Append(@, InitEntry(board, TRUE))],
                   exc |-> Some("InitError")]
             ELSE LET b == [board EXCEPT !.handler =
                               Some(initialize(board.board_address,
                                               board.conet, board.link))]
                      st1 == [r.st EXCEPT
                                !.log = Append(@, InitEntry(board, FALSE))]
                  IN  init_cached(
                          [st |-> fill_board_handler(
                                      reserve_board_channels(st1, b), b),
                           exc |-> None],
                          Tail(boards), config_board_addresses, o)

\* the second loop: for b in config: self.__add_board(b)
RECURSIVE add_each(_, _, _)
add_each(r, config, o) ==
    IF config = <<>> \/ r.exc # None THEN r
    ELSE add_each(add_board(r.st, Head(config), o), Tail(config), o)

\* Handler.__initialize_boards
initialize_boards(st, config, o) ==
    LET addrs == {config[i].board_address : i \in DOMAIN config}
        r1 == init_cached([st |-> st, exc |-> None], get_boards(st),
                          addrs, o)
        r2 == add_each(r1, config, o)
    IN  IF r2.exc # None THEN r2
        ELSE [st |-> remove_none_boards(r2.st), exc |-> None]

\* the last loop of Handler.__deinitialize_boards; a Deinitialize that
\* raises ends the loop and the call
RECURSIVE deinit_each(_, _, _)
deinit_each(r, boards, o) ==
    IF boards = <<>> \/ r.exc # None THEN r
    ELSE LET board == Head(boards)
         IN  IF board.handler = None THEN deinit_each(r, Tail(boards), o)
             ELSE IF board.board_address \in o.deinit
             THEN [st |-> [r.st EXCEPT
                             !.log = Append(@, DeinitEntry(board, TRUE))],
                   exc |-> Some("DeinitError")]
             ELSE deinit_each(
                      [st |-> fill_board_handler(
                                  [r.st EXCEPT !.log =
                                      Append(@, DeinitEntry(board, FALSE))],
                                  [board EXCEPT !.handler = None]),
                       exc |-> None],
                      Tail(boards), o)

\* a teardown that forgets pw_down
deinitialize_boards_no_pw_down(st, o, t) ==
    deinit_each([st |-> set_voltage(st, None, 0, o, t).st, exc |-> None],
                get_boards(st), o)

\* a teardown that powers down first and sets the voltage afterwards
deinitialize_boards_down_first(st, o, t) ==
    LET boards == get_boards(st)
        st1 == pw_down(st, None, o, t)
        st2 == set_voltage(st1, None, 0, o, t).st
    IN  deinit_each([st |-> st2, exc |-> None], boards, o)

\* Handler.__deinitialize_boards
deinitialize_boards(st, o, t) ==
    LET boards == get_boards(st)
        st1 == set_voltage(st, None, 0, o, t).st
        st2 == pw_down(st1, None, o, t)
    IN  deinit_each([st |-> st2, exc |-> None], boards, o)

\* the keys __validate_config asks of the file, and of each of its boards
top_fields == {"board_info", "default_voltages", "default_max_current"}
need_fields == {"conet", "link", "channels_by_layer", "aliases"}

\* A parsed configuration file: whether it is a dict, its keys, the keys of
\* each entry of board_info, and the boards from_json makes of the entries
ConfigFile(is_dict, keys, fields, boards) ==
    [is_dict |-> is_dict, keys |-> keys, fields |-> fields, boards |-> boards]

\* a validation that looks at the keys of the file alone
validate_config_top_level_only(parsed_json) ==
    IF ~parsed_json.is_dict THEN Some("ValueError")
    ELSE IF ~(top_fields \subseteq parsed_json.keys) THEN Some("ValueError")
    ELSE None

\* Board_info.__validate_config
validate_config(parsed_json) ==
    IF ~parsed_json.is_dict THEN Some("ValueError")
    ELSE IF ~(top_fields \subseteq parsed_json.keys) THEN Some("ValueError")
    ELSE IF \E i \in DOMAIN parsed_json.fields :
                parsed_json.fields[i] # need_fields
    THEN Some("ValueError")
    ELSE None

\* Handler.__init__ from remove_DB_records on
construct(st, config, o) ==
    LET r == initialize_boards(remove_DB_records(st), config, o)
        keys == KeySeq(Joined(r.st))
        P == [k \in Range(keys) |-> StartupParams(r.st.Channel[k].layer)]
    IN  IF r.exc # None THEN r
        ELSE [st |-> set_each(r.st, keys, P, o), exc |-> None]

\* Handler.__init__: Board_info.from_json validates the file first
Handler_init(st, file, o) ==
    IF validate_config(file) # None
    THEN [st |-> st, exc |-> validate_config(file)]
    ELSE construct(st, file.boards, o)

----------------------------------------------------------------------------
(* Tickets: Tickets.py, TicketInfo.py, TicketType.py, TicketMaster.py *)

\* A Python value as JSON carries it: an int or a float (v10, in tenths),
\* the float nan, a string, None, a list of names, or a dict (items).
NoItems == [key \in {} |-> 0]
JVal(type, v10, s, names, items) ==
    [type |-> type, v10 |-> v10, s |-> s, names |-> names, items |-> items]
JInt(n) == JVal("int", 10 * n, "", {}, NoItems)
JFloat(v10) == JVal("float", v10, "", {}, NoItems)
JNaN == JVal("nan", 0, "", {}, NoItems)
JStr(s) == JVal("str", 0, s, {}, NoItems)
JNull == JVal("null", 0, "", {}, NoItems)
JList(names) == JVal("list", 0, "", names, NoItems)
JDict(items) == JVal("dict", 0, "", {}, items)

\* the strings float() parses, with the value it gives them (in tenths)
NumericStrings == ("0.5" :> 5) @@ ("1.3" :> 13)

\* float(x)
to_float(x) ==
    CASE x.type \in {"int", "float"} ->
             [exc |-> None, value |-> JFloat(x.v10)]
      [] x.type = "nan" -> [exc |-> None, value |-> JNaN]
      [] x.type = "str" ->
             IF x.s \in DOMAIN NumericStrings
             THEN [exc |-> None, value |-> JFloat(NumericStrings[x.s])]
             ELSE IF x.s = "nan" THEN [exc |-> None, value |-> JNaN]
             ELSE [exc |-> Some("ValueError"), value |-> JNull]
      [] OTHER -> [exc |-> Some("TypeError"), value |-> JNull]

\* a == b on two values that are distinct objects: nan equals nothing, an
\* int equals the float of the same value, dicts are compared item by item
value_eq(a, b) ==
    IF a.type = "nan" \/ b.type = "nan" THEN FALSE
    ELSE IF a.type \in {"int", "float"} /\ b.type \in {"int", "float"}
    THEN a.v10 = b.v10
    ELSE a = b

dict_eq(a, b) ==
    /\ DOMAIN a = DOMAIN b
    /\ \A key \in DOMAIN a : value_eq(a[key], b[key])

\* json.dumps(v) is a text and json.loads(text) the value it denotes: floats
\* are written with their fraction and nan as the token NaN, so the value
\* comes back with its type, as a new object
json_dumps(v) == [text |-> v]
json_loads(json_string) == json_string.text

\* the members of TicketType
TicketKinds == {"SetVoltage", "Down", "GetParams"}

\* <Kind>_Ticket.params_keys
params_keys(kind) ==
    CASE kind = "SetVoltage" -> {"target_voltage"}
      [] kind = "Down" -> {}
      [] kind = "GetParams" -> {"select_params"}

Ticket(kind, target, sel_params) ==
    [kind |-> kind, target |-> target, sel_params |-> sel_params]

NoTicket == Ticket("none", JNull, JNull)

\* <Kind>_Ticket(params)
new_Ticket(kind, params) ==
    CASE kind = "Down" ->
             [exc |-> None, ticket |-> Ticket("Down", JNull, JNull)]
      [] kind = "SetVoltage" ->
             IF params.type # "dict"
             THEN [exc |-> Some("AttributeError"), ticket |-> NoTicket]
             ELSE IF ~(params_keys(kind) \subseteq DOMAIN params.items)
             THEN [exc |-> Some("KeyError"), ticket |-> NoTicket]
             ELSE LET f == to_float(params.items["target_voltage"])
                  IN  IF f.exc # None
                      THEN [exc |-> f.exc, ticket |-> NoTicket]
                      ELSE [exc |-> None,
                            ticket |-> Ticket("SetVoltage", f.value, JNull)]
      [] kind = "GetParams" ->
             IF params.type # "dict"
             THEN [exc |-> Some("AttributeError"), ticket |-> NoTicket]
             ELSE [exc |-> None,
                   ticket |-> Ticket("GetParams", JNull,
                       IF "select_params" \in DOMAIN params.items
                       THEN params.items["select_params"] ELSE JNull)]

\* a description that carries the selection of a GetParams ticket
description_keeps_selection(ticket) ==
    [name |-> ticket.kind,
     params |-> IF ticket.kind = "SetVoltage"
                THEN [key \in {"target_voltage"} |-> ticket.target]
                ELSE IF ticket.kind = "GetParams"
                THEN [key \in {"select_params"} |-> ticket.sel_params]
                ELSE NoItems]

\* ticket.description: a Ticket_info
description(ticket) ==
    [name |-> ticket.kind,
     params |-> IF ticket.kind = "SetVoltage"
                THEN [key \in {"target_voltage"} |-> ticket.target]
                ELSE NoItems]

\* Ticket_info == Ticket_info (the dataclass compares name, then params)
info_eq(a, b) == a.name = b.name /\ dict_eq(a.params, b.params)

\* Ticket_info.json
info_json(info) ==
    json_dumps(JDict([key \in {"name", "params"} |->
                        IF key = "name" THEN JStr(info.name)
                        ELSE JDict(info.params)]))

\* TicketMaster.serialize
serialize(ticket) == info_json(description(ticket))

\* TicketMaster.deserialize
deserialize(json_string) ==
    LET data == json_loads(json_string)
    IN  IF data.type # "dict"
        THEN [exc |-> Some("TypeError"), ticket |-> NoTicket]
        ELSE IF "name" \notin DOMAIN data.items
        THEN [exc |-> Some("KeyError"), ticket |-> NoTicket]
        ELSE IF \/ data.items["name"].type # "str"
                \/ data.items["name"].s \notin TicketKinds
        THEN [exc |-> Some("KeyError"), ticket |-> NoTicket]
        ELSE IF "params" \notin DOMAIN data.items
        THEN [exc |-> Some("KeyError"), ticket |-> NoTicket]
        ELSE new_Ticket(data.items["name"].s, data.items["params"])

\* an inspect that asks for the keys of params to be among the required ones
inspect_subset_reversed(json_string, kind) ==
    LET data == json_loads(json_string)
    IN  IF data.type # "dict"
        THEN [exc |-> Some("AttributeError"), value |-> FALSE]
        ELSE IF "name" \notin DOMAIN data.items
        THEN [exc |-> Some("KeyError"), value |-> FALSE]
        ELSE IF "params" \notin DOMAIN data.items
        THEN [exc |-> Some("KeyError"), value |-> FALSE]
        ELSE IF data.items["params"].type # "dict"
        THEN [exc |-> Some("KeyError"), value |-> FALSE]
        ELSE [exc |-> None,
              value |-> DOMAIN data.items["params"].items
                            \subseteq params_keys(kind)]

\* TicketMaster.inspect
inspect(json_string, kind) ==
    LET data == json_loads(json_string)
    IN  IF data.type # "dict"
        THEN [exc |-> Some("AttributeError"), value |-> FALSE]
        ELSE IF "name" \notin DOMAIN data.items
        THEN [exc |-> Some("KeyError"), value |-> FALSE]
        ELSE IF "params" \notin DOMAIN data.items
        THEN [exc |-> Some("KeyError"), value |-> FALSE]
        ELSE IF data.items["params"].type # "dict"
        THEN [exc |-> Some("KeyError"), value |-> FALSE]
        ELSE [exc |-> None,
              value |-> params_keys(kind)
                            \subseteq DOMAIN data.items["params"].items]

\* the result of execute: {"status": ..., "body": ...}
Envelope(status, body) == [status |-> status, body |-> body]

\* Down_Ticket.execute (pw_down has no raise of its own)
execute_Down(st, ticket, o, t) ==
    [st |-> pw_down(st, None, o, t), exc |-> None,
     json |-> Envelope(TRUE, NoItems)]

\* self.__target as set_voltage takes it: tenths, or nan
multiplier(x) == IF x.type = "nan" THEN nan ELSE x.v10

\* a SetVoltage execute without its try / except
execute_SetVoltage_uncaught(st, ticket, o, t) ==
    LET r == set_voltage(st, None, multiplier(ticket.target), o, t)
    IN  [st |-> r.st, exc |-> r.exc,
         json |-> IF r.exc = None THEN Envelope(TRUE, NoItems) ELSE NoItems]

\* SetVoltage_Ticket.execute
execute_SetVoltage(st, ticket, o, t) ==
    LET r == set_voltage(st, None, multiplier(ticket.target), o, t)
    IN  [st |-> r.st, exc |-> None,
         json |-> IF r.exc = None THEN Envelope(TRUE, NoItems)
                  ELSE Envelope(FALSE, [error |-> r.exc[1]])]

\* set(params) in Handler.get_params: the names of a list, the keys of a
\* dict, the characters of a string (no parameter name is one character)
as_set(params) ==
    CASE params.type = "null" -> [exc |-> None, params |-> None]
      [] params.type = "list" -> [exc |-> None, params |-> Some(params.names)]
      [] params.type = "dict" ->
             [exc |-> None, params |-> Some(DOMAIN params.items)]
      [] params.type = "str" -> [exc |-> None, params |-> Some({})]
      [] OTHER -> [exc |-> Some("TypeError"), params |-> None]

\* a GetParams execute that powers the channels up before it reads them
execute_GetParams_powers_up(st, ticket, o, t) ==
    LET sel == as_set(ticket.sel_params)
    IN  IF sel.exc # None
        THEN [st |-> st, exc |-> None,
              json |-> Envelope(FALSE, [error |-> sel.exc[1]])]
        ELSE LET r == get_params(pw_up(st, None, o, t), None, sel.params,
                                 o, t)
             IN  [st |-> r.st, exc |-> None,
                  json |-> Envelope(TRUE, [params |-> r.value])]

\* GetParams_Ticket.execute
execute_GetParams(st, ticket, o, t) ==
    LET sel == as_set(ticket.sel_params)
    IN  IF sel.exc # None
        THEN [st |-> st, exc |-> None,
              json |-> Envelope(FALSE, [error |-> sel.exc[1]])]
        ELSE LET r == get_params(st, None, sel.params, o, t)
             IN  [st |-> r.st, exc |-> None,
                  json |-> Envelope(TRUE, [params |-> r.value])]

\* ticket.execute(handler): the execute of the ticket's class.  A ticket has
\* no attribute that records an execution
execute(st, ticket, o, t) ==
    CASE ticket.kind = "Down" -> execute_Down(st, ticket, o, t)
      [] ticket.kind = "SetVoltage" -> execute_SetVoltage(st, ticket, o, t)
      [] ticket.kind = "GetParams" -> execute_GetParams(st, ticket, o, t)

----------------------------------------------------------------------------
(* State machine *)

State == [Board |-> Board, Channel |-> Channel, hw |-> hw, log |-> <<>>]

\* every channel a configuration can put in the store
AllKeys ==
    UNION {UNION {{<<c[i].board_address, c[i].channels[j].channel>> :
                      j \in DOMAIN c[i].channels} : i \in DOMAIN c} :
           c \in Configs}

\* the layer arguments: every layer (None) and layer 2, which holds a
\* channel in two of the configurations and none in the third
LayerArgs == {None, Some(2)}

Commit(st) ==
    /\ Board' = st.Board
    /\ Channel' = st.Channel
    /\ hw' = st.hw
    /\ log' = st.log

Init ==
    /\ phase = "new"
    /\ fake_board \in BOOLEAN
    /\ foreign_keys \in BOOLEAN
    /\ Board = << >>
    /\ Channel = << >>
    /\ hw = << >>
    /\ now = 0
    /\ pending = FALSE
    /\ lastOp = "none"
    /\ args = << >>
    /\ ret = << >>
    /\ log = << >>
    /\ other = [phase |-> "new", Board |-> << >>, Channel |-> << >>]

\* time passes between two operations
Tick ==
    /\ ~pending
    /\ now < MaxTime
    /\ now' = now + 1
    /\ UNCHANGED <<phase, fake_board, foreign_keys, other, Board, Channel, hw,
                   pending, lastOp, args, ret, log>>

\* the caller takes the result of the operation that has finished
Return ==
    /\ pending
    /\ pending' = FALSE
    /\ lastOp' = "none"
    /\ args' = << >>
    /\ ret' = << >>
    /\ log' = << >>
    /\ UNCHANGED <<phase, fake_board, foreign_keys, other, Board, Channel, hw, now>>

\* The configuration files: the valid file of each configuration, and
\* files that are no dict, lack a key, or have a board (the last one) with
\* a field missing or a field too many
ConfigFiles ==
    {ConfigFile(TRUE, top_fields, [i \in DOMAIN c |-> need_fields], c) :
        c \in Configs}
    \cup {ConfigFile(FALSE, {}, <<>>, <<>>)}
    \cup {ConfigFile(TRUE, top_fields \ {f}, [i \in DOMAIN c |-> need_fields],
                     c) : f \in top_fields, c \in Configs}
    \cup {ConfigFile(TRUE, top_fields,
                     [i \in DOMAIN c |-> IF i = Len(c) THEN bad
                                         ELSE need_fields], c) :
            bad \in {need_fields \ {"aliases"}, need_fields \cup {"extra"}},
            c \in Configs}

\* Handler(config_path)
Construct ==
    /\ ~pending
    /\ phase = "new"
    /\ \E file \in ConfigFiles, o \in Faults(Addresses, {}, AllKeys) :
        LET r == Handler_init(State, file, o)
        IN  /\ Commit(r.st)
            /\ phase' = IF r.exc = None THEN "live" ELSE "raised"
            /\ pending' = TRUE
            /\ lastOp' = "Construct"
            /\ args' = [config |-> file.boards, file |-> file]
            /\ ret' = [exc |-> r.exc]
    /\ UNCHANGED <<fake_board, foreign_keys, other, now>>

\* handler.set_voltage(layer, voltage_multiplier)
SetVoltage ==
    /\ ~pending
    /\ phase = "live"
    /\ \E layer \in LayerArgs, m10 \in Multipliers :
        \E o \in Faults({}, {}, Range(SelectChannels(State, layer))) :
            LET r == set_voltage(State, layer, m10, o, now)
            IN  /\ Commit(r.st)
                /\ pending' = TRUE
                /\ lastOp' = "SetVoltage"
                /\ args' = [layer |-> layer, m10 |-> m10]
                /\ ret' = [exc |-> r.exc]
    /\ UNCHANGED <<phase, fake_board, foreign_keys, other, now>>

\* handler.pw_down(layer)
PwDown ==
    /\ ~pending
    /\ phase = "live"
    /\ \E layer \in LayerArgs :
        \E o \in Faults({}, {}, Range(SelectChannels(State, layer))) :
            /\ Commit(pw_down(State, layer, o, now))
            /\ pending' = TRUE
            /\ lastOp' = "PwDown"
            /\ args' = [layer |-> layer]
            /\ ret' = [exc |-> None]
    /\ UNCHANGED <<phase, fake_board, foreign_keys, other, now>>

\* handler.pw_up(layer)
PwUp ==
    /\ ~pending
    /\ phase = "live"
    /\ \E layer \in LayerArgs :
        \E o \in Faults({}, {}, Range(SelectChannels(State, layer))) :
            /\ Commit(pw_up(State, layer, o, now))
            /\ pending' = TRUE
            /\ lastOp' = "PwUp"
            /\ args' = [layer |-> layer]
            /\ ret' = [exc |-> None]
    /\ UNCHANGED <<phase, fake_board, foreign_keys, other, now>>

\* the params arguments of get_params
ParamSelections == {None, Some({"VSet", "VDef"}), Some({"Pw", "Bogus"})}

\* handler.get_params(layer, params)
GetParams ==
    /\ ~pending
    /\ phase = "live"
    /\ \E layer \in LayerArgs,
          params \in ParamSelections, o \in Faults({}, {}, Joined(State)) :
        LET r == get_params(State, layer, params, o, now)
        IN  /\ Commit(r.st)
            /\ pending' = TRUE
            /\ lastOp' = "GetParams"
            /\ args' = [layer |-> layer, params |-> params]
            /\ ret' = [exc |-> None, value |-> r.value]
    /\ UNCHANGED <<phase, fake_board, foreign_keys, other, now>>

\* Handler.__del__; the interpreter ignores what __del__ raises
Del ==
    /\ ~pending
    /\ phase \in {"live", "raised"}
    /\ \E o \in Faults({}, DOMAIN Board, Joined(State)) :
        Commit(deinitialize_boards(State, o, now).st)
    /\ phase' = "deleted"
    /\ pending' = TRUE
    /\ lastOp' = "Del"
    /\ args' = << >>
    /\ ret' = [exc |-> None]
    /\ UNCHANGED <<fake_board, foreign_keys, other, now>>

\* handler._Handler__initialize_boards(config), called on a live Handler
Reconcile ==
    /\ ~pending
    /\ phase = "live"
    /\ \E config \in Configs, o \in Faults(Addresses, {}, {}) :
        LET r == initialize_boards(State, config, o)
        IN  /\ Commit(r.st)
            /\ pending' = TRUE
            /\ lastOp' = "Reconcile"
            /\ args' = [config |-> config]
            /\ ret' = [exc |-> r.exc]
    /\ UNCHANGED <<phase, fake_board, foreign_keys, other, now>>

\* handler._Handler__deinitialize_boards(), called on a live Handler
Teardown ==
    /\ ~pending
    /\ phase = "live"
    /\ \E o \in Faults({}, DOMAIN Board, Joined(State)) :
        LET r == deinitialize_boards(State, o, now)
        IN  /\ Commit(r.st)
            /\ ret' = [exc |-> r.exc]
    /\ pending' = TRUE
    /\ lastOp' = "Teardown"
    /\ args' = << >>
    /\ UNCHANGED <<phase, fake_board, foreign_keys, other, now>>

\* the parameter lists of a direct __set_parameters call for a channel of
\* `layer`: the lists of pw_down and of set_voltage at the full voltage
WriteLists(layer) == {PwDownParams, VoltageParams(layer, 10)}

\* the layer of the Channel row k, 0 when there is none
LayerOf(k) == IF k \in DOMAIN Channel THEN Channel[k].layer ELSE 0

\* handler._Handler__set_parameters(channel, params_dict), called on a live
\* Handler
WriteParameters ==
    /\ ~pending
    /\ phase = "live"
    /\ \E k \in AllKeys :
        \E params \in WriteLists(LayerOf(k)), o \in Faults({}, {}, {k}) :
            LET r == set_parameters(State, k, params, o)
            IN  /\ Commit(r.st)
                /\ pending' = TRUE
                /\ lastOp' = "WriteParameters"
                /\ args' = [channel |-> k, params |-> params]
                /\ ret' = [exc |-> None, ok |-> r.ok]
    /\ UNCHANGED <<phase, fake_board, foreign_keys, other, now>>

\* handler._Handler__get_parameters(channel), called on a live Handler
ReadParameters ==
    /\ ~pending
    /\ phase = "live"
    /\ \E k \in AllKeys :
        \E o \in Faults({}, {}, {k}) :
            LET r == get_parameters(State, k, o, now)
            IN  /\ Commit(r.st)
                /\ pending' = TRUE
                /\ lastOp' = "ReadParameters"
                /\ args' = [channel |-> k]
                /\ ret' = [exc |-> None, value |-> r.res]
    /\ UNCHANGED <<phase, fake_board, foreign_keys, other, now>>

\* the values a client puts under target_voltage and under select_params
TargetValues ==
    {JInt(1), JFloat(5), JFloat(-1), JStr("1.3"), JStr("abc"), JNaN}
SelectValues == {JList({"VSet", "VDef"}), JList({"Pw", "Bogus"}), JInt(5)}

\* the params dicts a client sends
TicketParams ==
    {JDict([key \in keys |-> IF key = "target_voltage" THEN tv
                             ELSE IF key = "select_params" THEN sp
                             ELSE JInt(1)]) :
        keys \in SUBSET {"target_voltage", "select_params", "extra"},
        tv \in TargetValues, sp \in SelectValues}

\* the tickets of a kind that can be constructed
Tickets(kind) ==
    {new_Ticket(kind, params).ticket :
        params \in {q \in TicketParams : new_Ticket(kind, q).exc = None}}

\* Down_Ticket(params).execute(handler)
ExecuteDown ==
    /\ ~pending
    /\ phase = "live"
    /\ \E ticket \in Tickets("Down"), o \in Faults({}, {}, Joined(State)) :
        LET r == execute_Down(State, ticket, o, now)
        IN  /\ Commit(r.st)
            /\ pending' = TRUE
            /\ lastOp' = "ExecuteDown"
            /\ args' = [ticket |-> ticket]
            /\ ret' = [exc |-> r.exc, json |-> r.json]
    /\ UNCHANGED <<phase, fake_board, foreign_keys, other, now>>

\* SetVoltage_Ticket(params).execute(handler)
ExecuteSetVoltage ==
    /\ ~pending
    /\ phase = "live"
    /\ \E ticket \in Tickets("SetVoltage"),
          o \in Faults({}, {}, Joined(State)) :
        LET r == execute_SetVoltage(State, ticket, o, now)
        IN  /\ Commit(r.st)
            /\ pending' = TRUE
            /\ lastOp' = "ExecuteSetVoltage"
            /\ args' = [ticket |-> ticket]
            /\ ret' = [exc |-> r.exc, json |-> r.json]
    /\ UNCHANGED <<phase, fake_board, foreign_keys, other, now>>

\* GetParams_Ticket(params).execute(handler)
ExecuteGetParams ==
    /\ ~pending
    /\ phase = "live"
    /\ \E ticket \in Tickets("GetParams"),
          o \in Faults({}, {}, Joined(State)) :
        LET r == execute_GetParams(State, ticket, o, now)
        IN  /\ Commit(r.st)
            /\ pending' = TRUE
            /\ lastOp' = "ExecuteGetParams"
            /\ args' = [ticket |-> ticket]
            /\ ret' = [exc |-> r.exc, json |-> r.json]
    /\ UNCHANGED <<phase, fake_board, foreign_keys, other, now>>

\* TicketMaster.deserialize(TicketMaster.serialize(ticket))
RoundTrip ==
    /\ ~pending
    /\ \E kind \in TicketKinds :
        \E ticket \in Tickets(kind) :
            LET r == deserialize(serialize(ticket))
            IN  /\ pending' = TRUE
                /\ lastOp' = "RoundTrip"
                /\ args' = [ticket |-> ticket]
                /\ ret' = [exc |-> r.exc, ticket |-> r.ticket]
    /\ log' = << >>
    /\ UNCHANGED <<phase, fake_board, foreign_keys, other, Board, Channel, hw, now>>

\* the requests a client sends: an object with a name, known or not, and
\* params, either of which may be missing
Requests ==
    {json_dumps(JDict([key \in keys |-> IF key = "name" THEN JStr(name)
                                        ELSE p])) :
        keys \in {{"name", "params"}, {"name"}, {"params"}},
        name \in TicketKinds \cup {"Bogus"},
        p \in TicketParams \cup {JNull}}

\* TicketMaster.deserialize(json_string)
Deserialize ==
    /\ ~pending
    /\ \E json_string \in Requests :
        LET r == deserialize(json_string)
        IN  /\ pending' = TRUE
            /\ lastOp' = "Deserialize"
            /\ args' = [json_string |-> json_string]
            /\ ret' = [exc |-> r.exc, ticket |-> r.ticket]
    /\ log' = << >>
    /\ UNCHANGED <<phase, fake_board, foreign_keys, other, Board, Channel, hw, now>>

\* the JSON objects a client sends: name and params present or not, params
\* a dict or not
Documents ==
    {json_dumps(JDict([key \in keys |-> IF key = "name" THEN JStr(name)
                                        ELSE p])) :
        keys \in SUBSET {"name", "params"},
        name \in {"Down", "Bogus"},
        p \in TicketParams \cup {JNull, JList({"target_voltage"}),
                                 JStr("select_params")}}

\* TicketMaster.inspect(json_string, ticket_type)
Inspect ==
    /\ ~pending
    /\ \E json_string \in Documents, kind \in TicketKinds :
        LET r == inspect(json_string, kind)
        IN  /\ pending' = TRUE
            /\ lastOp' = "Inspect"
            /\ args' = [json_string |-> json_string, kind |-> kind]
            /\ ret' = [exc |-> r.exc, value |-> r.value]
    /\ log' = << >>
    /\ UNCHANGED <<phase, fake_board, foreign_keys, other, Board, Channel, hw, now>>

\* The second Handler sees its own store and the hardware of the process
OtherState ==
    [Board |-> other.Board, Channel |-> other.Channel, hw |-> hw,
     log |-> <<>>]

CommitOther(st, ph) ==
    /\ other' = [phase |-> ph, Board |-> st.Board, Channel |-> st.Channel]
    /\ hw' = st.hw
    /\ log' = st.log

\* other = Handler(config_path), with the fake adapter
OtherConstruct ==
    /\ ~pending
    /\ fake_board
    /\ other.phase = "new"
    /\ \E config \in Configs :
        LET r == construct(OtherState, config, NoFault)
        IN  /\ CommitOther(r.st, "live")
            /\ pending' = TRUE
            /\ lastOp' = "OtherConstruct"
            /\ args' = [config |-> config]
            /\ ret' = [exc |-> r.exc]
    /\ UNCHANGED <<phase, fake_board, foreign_keys, Board, Channel, now>>

\* other.set_voltage(None, voltage_multiplier)
OtherSetVoltage ==
    /\ ~pending
    /\ fake_board
    /\ other.phase = "live"
    /\ \E m10 \in Multipliers :
        LET r == set_voltage(OtherState, None, m10, NoFault, now)
        IN  /\ CommitOther(r.st, "live")
            /\ pending' = TRUE
            /\ lastOp' = "OtherSetVoltage"
            /\ args' = [layer |-> None, m10 |-> m10]
            /\ ret' = [exc |-> r.exc]
    /\ UNCHANGED <<phase, fake_board, foreign_keys, Board, Channel, now>>

\* del other: Handler.__del__ of the second Handler
OtherDel ==
    /\ ~pending
    /\ fake_board
    /\ other.phase = "live"
    /\ CommitOther(deinitialize_boards(OtherState, NoFault, now).st, "deleted")
    /\ pending' = TRUE
    /\ lastOp' = "OtherDel"
    /\ args' = << >>
    /\ ret' = [exc |-> None]
    /\ UNCHANGED <<phase, fake_board, foreign_keys, Board, Channel, now>>

\* A stock SQLite build: foreign keys are not enforced
InitStock == Init /\ ~foreign_keys

\* Handler(config_path) with fake_board left at its default, True
InitFake == InitStock /\ fake_board

\* The program: one Handler, the calls of its public methods, its deletion
Next ==
    \/ Return
    \/ Tick
    \/ Construct
    \/ SetVoltage
    \/ PwDown
    \/ PwUp
    \/ GetParams
    \/ Del
Spec == InitStock /\ [][Next]_vars

\* The device directory alone: construction, reconciliation, teardown
NextDir ==
    \/ Return
    \/ Construct
    \/ Reconcile
    \/ Teardown
SpecDir == Init /\ [][NextDir]_vars

\* The life of one Handler: construction, power-up, teardown (the voltage
\* changes are in SpecVolt: what Teardown calls does not depend on them)
NextLife ==
    \/ Return
    \/ Construct
    \/ PwUp
    \/ Teardown
SpecLife == InitStock /\ [][NextLife]_vars

\* The parameter cache: queries and direct writes as time passes
NextRefresh ==
    \/ Return
    \/ Tick
    \/ Construct
    \/ GetParams
    \/ WriteParameters
    \/ Teardown
SpecRefresh == InitStock /\ [][NextRefresh]_vars

\* The voltage controller: the public voltage and power calls as time passes
NextVolt ==
    \/ Return
    \/ Tick
    \/ Construct
    \/ SetVoltage
    \/ PwDown
    \/ PwUp
SpecVolt == InitStock /\ [][NextVolt]_vars

\* Reads and writes of single channels, found in the store or not
NextLookup ==
    \/ Return
    \/ Tick
    \/ Construct
    \/ ReadParameters
    \/ WriteParameters
    \/ Teardown

SpecLookup == InitStock /\ [][NextLookup]_vars

\* The tickets: their construction, execution and JSON form
NextTickets ==
    \/ Return
    \/ Construct
    \/ ExecuteDown
    \/ ExecuteSetVoltage
    \/ ExecuteGetParams
    \/ RoundTrip
    \/ Deserialize
    \/ Inspect

SpecTickets == InitStock /\ [][NextTickets]_vars

\* Two Handlers of one process on the fake adapter
NextPair ==
    \/ Return
    \/ Tick
    \/ Construct
    \/ SetVoltage
    \/ GetParams
    \/ OtherConstruct
    \/ OtherSetVoltage
    \/ OtherDel

SpecPair == InitFake /\ [][NextPair]_vars

----------------------------------------------------------------------------
(* Claims about the device directory *)

ConfigAddresses(config) == {config[i].board_address : i \in DOMAIN config}

\* the (board, channel number, layer, alias) entries a configuration lists
ConfigChannels(config) ==
    UNION {{<<config[i].board_address, config[i].channels[j].channel,
              config[i].channels[j].layer, config[i].channels[j].alias>> :
               j \in DOMAIN config[i].channels} : i \in DOMAIN config}

\* the same entries of the Channel rows of the store
CacheChannels(C) ==
    {<<k[1], k[2], C[k].layer, C[k].alias>> : k \in DOMAIN C}

\* the calls of one kind in a log
Calls(l, kind) == {i \in DOMAIN l : l[i].call = kind}

\* C1: after Reconcile returns for a configuration, the Board rows are
\* exactly the configured addresses, each with a handle, and the Channel rows
\* are exactly the configured (channel, layer, alias) entries, none for any
\* other address.
C1_ReconcileGuarantee ==
    (pending /\ lastOp = "Reconcile" /\ ret.exc = None) =>
        /\ DOMAIN Board = ConfigAddresses(args.config)
        /\ \A a \in DOMAIN Board : Board[a].handler # None
        /\ CacheChannels(Channel) = ConfigChannels(args.config)

\* C2: a Board row whose address is absent from the configuration is gone
\* after one Reconcile call that returns, and so is every Channel row with
\* that board_address.
C2_RemovalComplete ==
    [][(pending' /\ lastOp' = "Reconcile" /\ ret'.exc = None) =>
        \A a \in DOMAIN Board \ ConfigAddresses(args'.config) :
            /\ a \notin DOMAIN Board'
            /\ \A k \in DOMAIN Channel' : k[1] # a]_vars

\* C3: where a Reconcile has returned normally, a second Reconcile with the
\* same configuration, no Initialize failing, returns normally too and leaves
\* the Board and Channel rows as the first call left them.
C3_ReconcileIdempotent ==
    (pending /\ lastOp = "Reconcile" /\ ret.exc = None) =>
        LET again == initialize_boards(State, args.config, NoFault)
        IN  /\ again.exc = None
            /\ again.st.Board = Board
            /\ again.st.Channel = Channel

\* whether a parameter list carries the pair (name, value)
HasPair(params, name, value) ==
    \E i \in DOMAIN params : params[i] = <<name, value>>

\* the calls of one kind a log holds for channel k
ChannelCalls(l, kind, k) ==
    {i \in Calls(l, kind) : l[i].address = k[1] /\ l[i].channel = k[2]}

\* C4: Teardown writes VSet=0 and Pw=0 to every channel before it
\* deinitializes any board; when it returns it has deinitialized each board
\* that had a handle exactly once and no other, and no Board row has a
\* handle.
C4_TeardownOrder ==
    [][(pending' /\ lastOp' = "Teardown") =>
        /\ \A k \in DOMAIN Channel :
            \E i \in ChannelCalls(log', "set", k) :
                /\ HasPair(log'[i].params, "VSet", 0)
                /\ HasPair(log'[i].params, "Pw", 0)
                /\ \A j \in Calls(log', "deinit") : i < j
        /\ ret'.exc = None =>
            /\ \A a \in DOMAIN Board :
                Cardinality({j \in Calls(log', "deinit") :
                                /\ log'[j].address = a
                                /\ log'[j].handle = Board[a].handler})
                    = IF Board[a].handler # None THEN 1 ELSE 0
            /\ Cardinality(Calls(log', "deinit"))
                    = Cardinality({a \in DOMAIN Board :
                                     Board[a].handler # None})
            /\ DOMAIN Board' = DOMAIN Board
            /\ \A a \in DOMAIN Board' : Board'[a].handler = None]_vars

\* a Teardown that returned after deinitializing two boards holding one
\* channel each
C4_Witness ==
    /\ pending
    /\ lastOp = "Teardown"
    /\ ret.exc = None
    /\ Cardinality(Calls(log, "deinit")) = 2
    /\ Cardinality(DOMAIN Channel) = 2
    /\ \A a \in DOMAIN Board : Board[a].handler = None

\* C5: where a Teardown has returned, a second Teardown calls no hardware
\* adapter operation and changes no Board or Channel row.
C5_SecondTeardownNoOp ==
    (pending /\ lastOp = "Teardown" /\ ret.exc = None) =>
        LET again == deinitialize_boards(State, NoFault, now).st
        IN  /\ again.log = <<>>
            /\ again.Board = Board
            /\ again.Channel = Channel

----------------------------------------------------------------------------
(* Claims about the parameter cache *)

\* the channels a query for `layer` selects: the Channel rows joined to a
\* Board row, of that layer when one is given
Selected(layer) ==
    {k \in DOMAIN Channel :
        /\ k[1] \in DOMAIN Board
        /\ layer = None \/ Channel[k].layer = layer[1]}

\* the parameters a query result holds for channel k
ReturnedFor(value, k) ==
    LET i == CHOOSE j \in DOMAIN value :
                /\ value[j].channel.board_info.board_address = k[1]
                /\ value[j].channel.channel_num = k[2]
    IN  value[i].params[1]

\* C6: a query reads a selected channel from the hardware exactly once when
\* its last_update is unset or older than refresh_time, and not at all
\* otherwise; after a read that succeeded the row's last_update is the time
\* of the query and the values returned are the values read.
C6_RefreshPolicy ==
    [][(pending' /\ lastOp' = "GetParams") =>
        /\ \A k \in DOMAIN Channel \ Selected(args'.layer) :
            ChannelCalls(log', "get", k) = {}
        /\ \A k \in Selected(args'.layer) :
            LET gets == ChannelCalls(log', "get", k)
                old == Channel[k].last_update
                got == ReturnedFor(ret'.value, k)
            IN  /\ Cardinality(gets) =
                    IF old = None \/ now - old[1] > RefreshTime
                    THEN 1 ELSE 0
                /\ \A i \in gets : ~log'[i].raised =>
                    /\ Channel'[k].last_update = Some(now)
                    /\ \A n \in DOMAIN got \cap {"VSet", "Pw"} :
                        got[n] = Some(HwRow(hw, log'[i].handle, k[2])[n])]_vars

\* a query at a later time that read one channel, whose row was older than
\* refresh_time, and found another one fresh
C6_Witness ==
    /\ pending
    /\ lastOp = "GetParams"
    /\ now > RefreshTime
    /\ \E k1, k2 \in Selected(args.layer) :
        /\ ChannelCalls(log, "get", k1) = {}
        /\ \E i \in ChannelCalls(log, "get", k2) : ~log[i].raised
        /\ "VSet" \in DOMAIN ReturnedFor(ret.value, k2)
        /\ ReturnedFor(ret.value, k2)["VSet"] # Some(0)

\* C7: when the hardware read of a stale channel fails, the query returns
\* normally with the values the row held, and the row, last_update
\* included, is as it was, so it is still stale.
C7_FailedReadKeepsCache ==
    [][(pending' /\ lastOp' = "GetParams") =>
        \A k \in Selected(args'.layer) :
            (\E i \in ChannelCalls(log', "get", k) : log'[i].raised) =>
                /\ ret'.exc = None
                /\ Channel'[k] = Channel[k]
                /\ \A n \in DOMAIN ReturnedFor(ret'.value, k) \ {"VDef"} :
                    ReturnedFor(ret'.value, k)[n] = Channel[k].par[n]
                /\ \/ Channel'[k].last_update = None
                   \/ now - Channel'[k].last_update[1] > RefreshTime]_vars

\* a failed read of a channel whose row holds values of an earlier read
C7_Witness ==
    /\ pending
    /\ lastOp = "GetParams"
    /\ \E k \in Selected(args.layer) :
        /\ \E i \in ChannelCalls(log, "get", k) : log[i].raised
        /\ Channel[k].last_update # None
        /\ "VSet" \in DOMAIN ReturnedFor(ret.value, k)
        /\ ReturnedFor(ret.value, k)["VSet"] = Channel[k].par["VSet"]

\* C8: after a WriteParameters that succeeded the channel's row holds the
\* values read back from the hardware and the time of the write.
C8_WriteRefreshesCache ==
    [][(pending' /\ lastOp' = "WriteParameters" /\ ret'.ok) =>
        LET k == args'.channel
        IN  /\ Channel'[k].last_update = Some(now)
            /\ \A n \in {"VSet", "Pw"} :
                Channel'[k].par[n] =
                    Some(HwRow(hw', Board[k[1]].handler, k[2])[n])]_vars

\* C9: when the hardware SetParameters call raises, WriteParameters changes
\* no Board or Channel row and returns False without raising.
C9_FailedWriteKeepsCache ==
    [][(/\ pending' /\ lastOp' = "WriteParameters"
        /\ \E i \in Calls(log', "set") : log'[i].raised) =>
        /\ Board' = Board
        /\ Channel' = Channel
        /\ ret'.exc = None
        /\ ret'.ok = FALSE]_vars

\* a WriteParameters whose SetParameters call raised
C9_Witness ==
    /\ pending
    /\ lastOp = "WriteParameters"
    /\ Calls(log, "set") # {}
    /\ \A i \in Calls(log, "set") : log[i].raised
    /\ ~ret.ok

\* C10: WriteParameters for a channel whose Board row has no handle fails
\* and issues no SetParameters call.
C10_NoHandleNoWrite ==
    [][(/\ pending' /\ lastOp' = "WriteParameters"
        /\ args'.channel \in Selected(None)
        /\ Board[args'.channel[1]].handler = None) =>
        /\ ret'.ok = FALSE
        /\ Calls(log', "set") = {}]_vars

----------------------------------------------------------------------------
(* Claims about the voltage controller *)

\* the default voltage times the multiplier m10 / 10
Scaled(layer, m10) ==
    ((IF layer \in DOMAIN default_voltages THEN default_voltages[layer]
      ELSE 0) * m10) \div 10

\* r is n / d rounded to the nearest integer, a tie to the even one
IsRounded(r, n, d) ==
    /\ 2 * (r * d - n) <= d
    /\ 2 * (n - r * d) <= d
    /\ (2 * (r * d - n) = d \/ 2 * (n - r * d) = d) => r % 2 = 0

\* the indexes of the power-on writes and of the voltage writes in a log
PowerOnWrites(l) == {i \in Calls(l, "set") : l[i].params = PwUpParams}
VoltageWrites(l) ==
    {i \in Calls(l, "set") :
        Len(l[i].params) = 3 /\ l[i].params[1][1] = "VSet"
                             /\ l[i].params[2][1] = "RUp"}

\* C11: after set_voltage(L, m) with m in [0, 1.2] every channel of layer L
\* (every channel when L is None) has cached VSet = V_def(its layer) * m, and
\* when L is not None the hardware and cached VSet of the channels of
\* other layers are as before.
C11_SetVoltagePostcondition ==
    [][(/\ pending' /\ lastOp' = "SetVoltage"
        /\ args'.m10 >= 0 /\ args'.m10 <= 12) =>
        \A k \in DOMAIN Channel :
            IF k \in Selected(args'.layer)
            THEN Channel'[k].par["VSet"] =
                     Some(Scaled(Channel[k].layer, args'.m10))
            ELSE /\ Channel'[k].par["VSet"] = Channel[k].par["VSet"]
                 /\ k[1] \in DOMAIN Board =>
                        HwRow(hw', Board[k[1]].handler, k[2]).VSet
                            = HwRow(hw, Board[k[1]].handler, k[2]).VSet]_vars

\* C12: set_voltage with m < 0 or m > 1.2 raises the range error, calls no
\* hardware adapter operation and changes no row; m in [0, 1.2], 0 and 1.2
\* included, is accepted.
C12_RangeCheck ==
    [][(pending' /\ lastOp' = "SetVoltage") =>
        IF args'.m10 < 0 \/ args'.m10 > 12
        THEN /\ ret'.exc = Some("ValueError")
             /\ log' = <<>>
             /\ Board' = Board /\ Channel' = Channel /\ hw' = hw
        ELSE ret'.exc = None]_vars

\* a set_voltage with m = 1.3 rejected while a channel holds a voltage
C12_Witness ==
    /\ pending
    /\ lastOp = "SetVoltage"
    /\ args.m10 = 13
    /\ ret.exc = Some("ValueError")
    /\ \E k \in DOMAIN Channel : Channel[k].par["VSet"] = Some(1200)

\* C13: set_voltage writes to each selected channel, once, VSet = V_def * m,
\* RUp = round(ramp_up * V_def / V_def_max) and
\* RDown = round(ramp_down * V_def / V_def_max), V_def being 0 for a layer
\* without default voltage; for layer -1 the ramps are ramp_up and ramp_down.
C13_RampScaling ==
    [][(pending' /\ lastOp' = "SetVoltage" /\ ret'.exc = None) =>
        \A k \in Selected(args'.layer) :
            LET layer == Channel[k].layer
                vdef == IF layer \in DOMAIN default_voltages
                        THEN default_voltages[layer] ELSE 0
                ws == VoltageWrites(log') \cap ChannelCalls(log', "set", k)
            IN  /\ Cardinality(ws) = 1
                /\ \A i \in ws :
                    /\ log'[i].params[1][2] = Scaled(layer, args'.m10)
                    /\ log'[i].params[3][1] = "RDown"
                    /\ IF layer = -1
                       THEN /\ log'[i].params[2][2] = RampUp
                            /\ log'[i].params[3][2] = RampDown
                       ELSE /\ IsRounded(log'[i].params[2][2],
                                         RampUp * vdef, max_default_voltage)
                            /\ IsRounded(log'[i].params[3][2],
                                         RampDown * vdef,
                                         max_default_voltage)]_vars

\* set_voltage(None, 0.5) with a channel of layer 1 (1000 V) and one of
\* layer 2 (2000 V): VSet 500 with ramps 5 and 50, VSet 1000 with ramps 10
\* and 100
C13_Witness ==
    /\ pending
    /\ lastOp = "SetVoltage"
    /\ args = [layer |-> None, m10 |-> 5]
    /\ \E i, j \in VoltageWrites(log) :
        /\ Channel[<<log[i].address, log[i].channel>>].layer = 1
        /\ log[i].params = << <<"VSet", 500>>, <<"RUp", 5>>, <<"RDown", 50>> >>
        /\ Channel[<<log[j].address, log[j].channel>>].layer = 2
        /\ log[j].params =
               << <<"VSet", 1000>>, <<"RUp", 10>>, <<"RDown", 100>> >>

\* C14: set_voltage issues no Pw=1 write before the voltage write of every
\* selected channel, writes Pw=1 to exactly the selected channels, and
\* every selected channel ends with Pw = 1.
C14_PowerUpAfterWrites ==
    [][(pending' /\ lastOp' = "SetVoltage" /\ ret'.exc = None) =>
        /\ \A i \in PowerOnWrites(log'), j \in VoltageWrites(log') : j < i
        /\ \A k \in DOMAIN Channel :
            Cardinality(PowerOnWrites(log') \cap ChannelCalls(log', "set", k))
                = IF k \in Selected(args'.layer) THEN 1 ELSE 0
        /\ \A k \in Selected(args'.layer) :
            Channel'[k].par["Pw"] = Some(1)]_vars

\* C15: after pw_down(None) every channel has VSet = 0 and Pw = 0 on the
\* hardware and in its row, and its last_update is the time of the call.
C15_PowerDownAll ==
    [][(pending' /\ lastOp' = "PwDown" /\ args'.layer = None) =>
        \A k \in DOMAIN Channel' :
            /\ HwRow(hw', Board'[k[1]].handler, k[2]) = [VSet |-> 0, Pw |-> 0]
            /\ Channel'[k].par["VSet"] = Some(0)
            /\ Channel'[k].par["Pw"] = Some(0)
            /\ Channel'[k].last_update = Some(now)]_vars

----------------------------------------------------------------------------
(* Claims about the fleet-wide query *)

\* C20: get_params(layer, params) returns one entry per selected Channel
\* row, each with exactly the keys channel and params, channel with exactly
\* alias, channel_num, layer and board_info; the keys of an entry's params
\* are the requested names that are known names or VDef (all of them when
\* nothing is requested), and VDef is the default voltage of the channel's
\* layer.
C20_GetParamsShape ==
    [][(pending' /\ lastOp' = "GetParams") =>
        LET value == ret'.value
            known == par_names \cup {"VDef"}
            want == IF args'.params = None THEN known
                    ELSE args'.params[1] \cap known
        IN  /\ Len(value) = Cardinality(Selected(args'.layer))
            /\ \A k \in Selected(args'.layer) :
                \E i \in DOMAIN value :
                    /\ value[i].channel.board_info.board_address = k[1]
                    /\ value[i].channel.channel_num = k[2]
                    /\ value[i].channel.layer = Channel[k].layer
                    /\ value[i].channel.alias = Channel[k].alias
            /\ \A i \in DOMAIN value :
                /\ DOMAIN value[i] = {"channel", "params"}
                /\ DOMAIN value[i].channel =
                       {"alias", "channel_num", "layer", "board_info"}
                /\ value[i].params # None
                /\ DOMAIN value[i].params[1] = want
                /\ "VDef" \in want =>
                       value[i].params[1]["VDef"] =
                           Some(IF value[i].channel.layer
                                       \in DOMAIN default_voltages
                                THEN default_voltages[value[i].channel.layer]
                                ELSE 0)]_vars

\* a query for Pw and an unknown name that returns Pw alone for two channels
C20_Witness ==
    /\ pending
    /\ lastOp = "GetParams"
    /\ args.params = Some({"Pw", "Bogus"})
    /\ Len(ret.value) = 2
    /\ \A i \in DOMAIN ret.value :
        /\ ret.value[i].params # None
        /\ DOMAIN ret.value[i].params[1] = {"Pw"}

----------------------------------------------------------------------------
(* Claims about the tickets *)

Executes == {"ExecuteDown", "ExecuteSetVoltage", "ExecuteGetParams"}

\* C16: execute() of every ticket kind returns an object with exactly the
\* keys status and body and lets no exception out: what execution raises
\* becomes status = false with body {"error": message}; on success body is
\* {} for Down and SetVoltage and {"params": [...]} for GetParams.
C16_ExecuteEnvelope ==
    [][(pending' /\ lastOp' \in Executes) =>
        LET ticket == args'.ticket
            raises ==
                \/ /\ ticket.kind = "SetVoltage"
                   /\ ticket.target.v10 < 0 \/ ticket.target.v10 > 12
                \/ /\ ticket.kind = "GetParams"
                   /\ ticket.sel_params.type \in {"int", "float", "nan"}
        IN  /\ ret'.exc = None
            /\ DOMAIN ret'.json = {"status", "body"}
            /\ ret'.json.status = ~raises
            /\ IF raises THEN DOMAIN ret'.json.body = {"error"}
               ELSE IF ticket.kind = "GetParams"
               THEN /\ DOMAIN ret'.json.body = {"params"}
                    /\ Len(ret'.json.body.params) = Cardinality(Selected(None))
               ELSE DOMAIN ret'.json.body = {}]_vars

\* a SetVoltage ticket for 1.3 executed on a handler with channels: the
\* range error comes back as status = false
C16_Witness ==
    /\ pending
    /\ lastOp = "ExecuteSetVoltage"
    /\ args.ticket.target.v10 = 13
    /\ Channel # << >>
    /\ ret.exc = None
    /\ ret.json = [status |-> FALSE, body |-> [error |-> "ValueError"]]

\* C17: when a hardware set_parameters call fails while a SetVoltage or a
\* Down ticket executes, execute() returns status = false.
C17_FailedWriteReported ==
    [][(/\ pending' /\ lastOp' \in {"ExecuteDown", "ExecuteSetVoltage"}
        /\ \E i \in Calls(log', "set") : log'[i].raised) =>
        ret'.json.status = FALSE]_vars

\* C18: deserialize(serialize(t)) succeeds for every ticket t that can be
\* constructed and gives a ticket of the same kind whose description equals
\* the description of t; serialize(t) is the object {"name": kind,
\* "params": params}.
C18_RoundTrip ==
    [][(pending' /\ lastOp' = "RoundTrip") =>
        LET t == args'.ticket
            doc == serialize(t).text
        IN  /\ doc.type = "dict"
            /\ DOMAIN doc.items = {"name", "params"}
            /\ doc.items["name"] = JStr(t.kind)
            /\ doc.items["params"].type = "dict"
            /\ ret'.exc = None
            /\ ret'.ticket.kind = t.kind
            /\ info_eq(description(ret'.ticket), description(t))]_vars

\* C19: inspect(json, kind) is True exactly when the object has name and
\* params, params is an object and its keys include the required keys of
\* the kind; it is False when only required keys are missing, and a
\* KeyError when name or params is missing or params is not an object.
C19_Inspect ==
    [][(pending' /\ lastOp' = "Inspect") =>
        LET data == args'.json_string.text.items
            shaped == /\ "name" \in DOMAIN data
                      /\ "params" \in DOMAIN data
                      /\ data["params"].type = "dict"
        IN  IF ~shaped THEN ret'.exc = Some("KeyError")
            ELSE /\ ret'.exc = None
                 /\ ret'.value =
                        (params_keys(args'.kind)
                            \subseteq DOMAIN data["params"].items)]_vars

\* inspect of a GetParams object whose params lacks select_params but has
\* another key: False
C19_Witness ==
    /\ pending
    /\ lastOp = "Inspect"
    /\ args.kind = "GetParams"
    /\ {"name", "params"} \subseteq DOMAIN args.json_string.text.items
    /\ args.json_string.text.items["params"].type = "dict"
    /\ DOMAIN args.json_string.text.items["params"].items = {"target_voltage"}
    /\ ret = [exc |-> None, value |-> FALSE]

----------------------------------------------------------------------------
(* Claims about single-channel lookups *)

\* C21: a single-channel lookup that matches no row reports not-found and
\* does not raise: a read of that channel gives None, a write to it returns
\* False, neither calls the hardware nor changes a row, and a fleet
\* operation that meets such a channel goes on with the remaining ones.
C21_LookupNotFound ==
    [][(/\ pending' /\ lastOp' \in {"ReadParameters", "WriteParameters"}
        /\ args'.channel \notin Joined(State)) =>
        LET rest == SelectChannels(State, None)
            keys == <<args'.channel>> \o rest
            P == [k \in Range(keys) |-> PwDownParams]
        IN  /\ ret'.exc = None
            /\ lastOp' = "ReadParameters" => ret'.value = None
            /\ lastOp' = "WriteParameters" => ret'.ok = FALSE
            /\ log' = <<>>
            /\ Board' = Board /\ Channel' = Channel /\ hw' = hw
            /\ update_each(set_each(State, keys, P, NoFault), keys,
                           NoFault, now)
                 = update_each(set_each(State, rest, P, NoFault), rest,
                               NoFault, now)]_vars

\* a read of a channel that is not in the store, which holds other channels
C21_Witness ==
    /\ pending
    /\ lastOp = "ReadParameters"
    /\ args.channel \notin DOMAIN Channel
    /\ Channel # << >>
    /\ ret = [exc |-> None, value |-> None]

\* C26: every GetParameters and SetParameters call names one channel of the
\* store, and a refresh triggered by reading one channel makes one
\* GetParameters call at most and changes the row of that channel only.
C26_OneChannelScope ==
    [][pending' =>
        /\ \A i \in Calls(log', "get") \cup Calls(log', "set") :
            /\ <<log'[i].address, log'[i].channel>> \in DOMAIN Channel'
            /\ log'[i].handle =
                  IF lastOp' = "Construct"
                  THEN Board'[log'[i].address].handler
                  ELSE Board[log'[i].address].handler
        /\ lastOp' = "ReadParameters" =>
            /\ Cardinality(Calls(log', "get")) <= 1
            /\ Calls(log', "get") = ChannelCalls(log', "get", args'.channel)
            /\ DOMAIN Channel' = DOMAIN Channel
            /\ \A k \in DOMAIN Channel \ {args'.channel} :
                Channel'[k] = Channel[k]]_vars

\* a read of channel 0 of board 1 that refreshed its row while the row of
\* channel 0 of board 2 stayed unread
C26_Witness ==
    /\ pending
    /\ lastOp = "ReadParameters"
    /\ args.channel = <<1, 0>>
    /\ Cardinality(Calls(log, "get")) = 1
    /\ Channel[<<1, 0>>].last_update = Some(now)
    /\ <<2, 0>> \in DOMAIN Channel
    /\ Channel[<<2, 0>>].last_update = None

----------------------------------------------------------------------------
(* Further claims about the device directory *)

\* the addresses whose Initialize raised in a log
FailedInits(l) == {l[i].address : i \in {j \in Calls(l, "init") : l[j].raised}}

\* the Initialize calls a log holds for address a
InitCalls(l, a) == {i \in Calls(l, "init") : l[i].address = a}

\* C22: when Initialize fails for a configured board during Reconcile, there
\* is no Board row and no Channel row for that board afterwards, Initialize
\* was called once for it, and the failure is raised to the caller.
C22_FailedInitialize ==
    [][(/\ pending' /\ lastOp' \in {"Construct", "Reconcile"}
        /\ FailedInits(log') # {}) =>
        /\ ret'.exc # None
        /\ \A a \in FailedInits(log') :
            /\ a \notin DOMAIN Board'
            /\ \A k \in DOMAIN Channel' : k[1] # a
            /\ Cardinality(InitCalls(log', a)) = 1]_vars

\* C24: the board_address of every Channel row is the address of a Board
\* row.
C24_ChannelsHaveBoards ==
    \A k \in DOMAIN Channel : k[1] \in DOMAIN Board

\* C28: in one Reconcile call in which no Initialize fails, Initialize is
\* called once for each configured board and for no other.
C28_InitializeOncePerBoard ==
    [][(pending' /\ lastOp' = "Reconcile" /\ FailedInits(log') = {}) =>
        /\ \A a \in ConfigAddresses(args'.config) :
            Cardinality(InitCalls(log', a)) = 1
        /\ \A i \in Calls(log', "init") :
            log'[i].address \in ConfigAddresses(args'.config)]_vars

\* C29: when Reconcile removes a cached board that the configuration does
\* not list and that had a handle, Deinitialize is called for that handle.
C29_RemovedBoardTurnedOff ==
    [][(pending' /\ lastOp' = "Reconcile") =>
        \A a \in DOMAIN Board \ ConfigAddresses(args'.config) :
            (a \notin DOMAIN Board' /\ Board[a].handler # None) =>
                \E i \in Calls(log', "deinit") :
                    /\ log'[i].address = a
                    /\ log'[i].handle = Board[a].handler]_vars

----------------------------------------------------------------------------
(* Claims about the parameter names written *)

\* C30: every parameter name passed to SetParameters, by startup,
\* set_voltage, pw_down and pw_up, is one of Channel_info.par_names (one
\* name for the ramp-down among them).
C30_CanonicalNames ==
    \A i \in Calls(log, "set") :
        \A j \in DOMAIN log[i].params : log[i].params[j][1] \in par_names

----------------------------------------------------------------------------
(* Claims about the configuration file *)

\* C23: when the configuration is no dict, lacks board_info,
\* default_voltages or default_max_current, or has a board whose fields are
\* not exactly conet, link, channels_by_layer and aliases, constructing the
\* Handler raises, calls no hardware adapter operation and creates no Board
\* or Channel row.
C23_InvalidConfigRejected ==
    [][(/\ pending' /\ lastOp' = "Construct"
        /\ \/ ~args'.file.is_dict
           \/ ~({"board_info", "default_voltages", "default_max_current"}
                    \subseteq args'.file.keys)
           \/ \E i \in DOMAIN args'.file.fields :
                args'.file.fields[i] #
                    {"conet", "link", "channels_by_layer", "aliases"}) =>
        /\ ret'.exc = Some("ValueError")
        /\ phase' = "raised"
        /\ log' = <<>>
        /\ DOMAIN Board' = {} /\ DOMAIN Channel' = {} /\ hw' = hw]_vars

\* a construction refused for a file whose second board has a field too
\* many
C23_Witness ==
    /\ pending
    /\ lastOp = "Construct"
    /\ args.file.is_dict
    /\ Len(args.file.fields) = 2
    /\ "extra" \in args.file.fields[2]
    /\ ret.exc = Some("ValueError")
    /\ log = <<>>
    /\ DOMAIN Board = {}

----------------------------------------------------------------------------
(* Claims about what reaches the hardware *)

\* C25: SetParameters calls are issued by set_voltage, pw_down and pw_up
\* (the SetVoltage and Down tickets) and by startup only; a parameter query
\* (the GetParams ticket) issues no SetParameters call and changes nothing
\* on the hardware.
C25_QueryWritesNothing ==
    [][pending' =>
        /\ Calls(log', "set") # {} =>
            lastOp' \in {"Construct", "ExecuteSetVoltage", "ExecuteDown"}
        /\ lastOp' = "ExecuteGetParams" =>
            /\ Calls(log', "set") = {}
            /\ hw' = hw]_vars

\* a GetParams ticket that read a channel from the hardware, on which a
\* voltage is set
C25_Witness ==
    /\ pending
    /\ lastOp = "ExecuteGetParams"
    /\ ret.json.status
    /\ Calls(log, "get") # {}
    /\ \E key \in DOMAIN hw : hw[key].VSet > 0

\* C27: deserialize makes a ticket only of a request whose name is Down,
\* SetVoltage or GetParams and whose params hold the required keys of that
\* kind; a SetVoltage request without target_voltage and a request with an
\* unknown name raise KeyError; nothing is executed against the handler.
C27_DeserializeRequires ==
    [][(pending' /\ lastOp' = "Deserialize") =>
        LET data == args'.json_string.text.items
            named == /\ "name" \in DOMAIN data
                     /\ data["name"].s \in {"Down", "SetVoltage", "GetParams"}
            required == /\ named
                        /\ "params" \in DOMAIN data
                        /\ \A key \in params_keys(data["name"].s) :
                               /\ data["params"].type = "dict"
                               /\ key \in DOMAIN data["params"].items
        IN  /\ ret'.exc = None => required
            /\ ~named => ret'.exc = Some("KeyError")
            /\ (/\ named /\ data["name"].s = "SetVoltage"
                /\ "params" \in DOMAIN data
                /\ data["params"].type = "dict"
                /\ "target_voltage" \notin DOMAIN data["params"].items) =>
                    ret'.exc = Some("KeyError")
            /\ log' = <<>>
            /\ Board' = Board /\ Channel' = Channel /\ hw' = hw]_vars

----------------------------------------------------------------------------
(* Claims about the life of a ticket *)

\* C31: a ticket that has been executed cannot be executed again: a second
\* execute() of the same ticket object makes no hardware call and changes
\* nothing on the hardware or in the store.
C31_ExecutedOnce ==
    (pending /\ lastOp \in Executes) =>
        LET again == execute(State, args.ticket, NoFault, now)
        IN  /\ again.st.log = <<>>
            /\ again.st.hw = hw
            /\ again.st.Channel = Channel

----------------------------------------------------------------------------
(* Claims about the values written by the tickets *)

\* C32: every VSet a Down, SetVoltage or GetParams ticket writes to a
\* channel lies in [0, 1.2 * V_def] for the default voltage V_def of the
\* channel's layer (0 when the layer has none), and every ramp-up and
\* ramp-down rate it writes is at most the base rate.
C32_WritesWithinLimits ==
    (pending /\ lastOp \in Executes) =>
        \A i \in Calls(log, "set") : \A j \in DOMAIN log[i].params :
            LET pair == log[i].params[j]
                V_def == DefVolt(Channel[<<log[i].address,
                                           log[i].channel>>].layer)
            IN  /\ pair[1] = "VSet" =>
                    /\ pair[2] # nan
                    /\ 0 <= pair[2]
                    /\ 10 * pair[2] <= 12 * V_def
                /\ pair[1] = "RUp" => pair[2] <= RampUp
                /\ pair[1] = "RDown" => pair[2] <= RampDown

----------------------------------------------------------------------------
(* Claims about construction *)

\* the channels a configuration lists, as keys of the store
ConfigKeys(config) == {<<e[1], e[2]>> : e \in ConfigChannels(config)}

\* C33: constructing the Handler energizes no channel: every hardware write
\* of the construction holds the names ImonRange, ISet, Trip, RUp, RDWn and
\* PDwn and no other, its ISet being the default max current of the
\* channel's layer, or 50 when the layer has none; a construction that
\* returns has written exactly once to every configured channel; and no
\* VSet or Pw is on the hardware afterwards.
C33_ConstructNeverEnergizes ==
    [][(pending' /\ lastOp' = "Construct") =>
        /\ \A i \in Calls(log', "set") :
            LET params == log'[i].params
                layer == Channel'[<<log'[i].address, log'[i].channel>>].layer
            IN  /\ {params[j][1] : j \in DOMAIN params} =
                       {"ImonRange", "ISet", "Trip", "RUp", "RDWn", "PDwn"}
                /\ Len(params) = 6
                /\ HasPair(params, "ISet",
                           IF layer \in DOMAIN default_max_current
                           THEN default_max_current[layer]
                           ELSE DefaultMaxCurrent)
        /\ ret'.exc = None =>
            /\ \A k \in ConfigKeys(args'.config) :
                Cardinality(ChannelCalls(log', "set", k)) = 1
            /\ Cardinality(Calls(log', "set")) =
                   Cardinality(ConfigKeys(args'.config))
        /\ \A key \in DOMAIN hw' : hw'[key] = [VSet |-> 0, Pw |-> 0]]_vars

\* a construction that returned after writing to a channel of a layer with a
\* default max current and to a channel of a layer without one
C33_Witness ==
    /\ pending
    /\ lastOp = "Construct"
    /\ ret.exc = None
    /\ \E i, j \in Calls(log, "set") :
        /\ HasPair(log[i].params, "ISet", 20)
        /\ HasPair(log[j].params, "ISet", DefaultMaxCurrent)

----------------------------------------------------------------------------
(* Claims about the order of the teardown *)

\* C34: during Teardown every channel is written VSet=0 first, then a
\* power-on (Pw=1), then a power-off; the power-off is the last write to the
\* channel, carries Pw=0 and VSet=0, and comes before any board is
\* deinitialized.
C34_TeardownSequence ==
    [][(pending' /\ lastOp' = "Teardown") =>
        \A k \in DOMAIN Channel :
            \E a, b, c \in ChannelCalls(log', "set", k) :
                /\ a < b
                /\ b < c
                /\ HasPair(log'[a].params, "VSet", 0)
                /\ ~(\E v \in {0, 1} : HasPair(log'[a].params, "Pw", v))
                /\ log'[b].params = << <<"Pw", 1>> >>
                /\ HasPair(log'[c].params, "Pw", 0)
                /\ HasPair(log'[c].params, "VSet", 0)
                /\ \A j \in ChannelCalls(log', "set", k) : j <= c
                /\ \A j \in Calls(log', "deinit") : c < j]_vars

\* a Teardown of a real board: it powered the channels on and off again,
\* left them off on the hardware and deinitialized the board
C34_Witness ==
    /\ pending
    /\ lastOp = "Teardown"
    /\ ~fake_board
    /\ PowerOnWrites(log) # {}
    /\ Calls(log, "deinit") # {}
    /\ hw # << >>
    /\ \A key \in DOMAIN hw : hw[key].Pw = 0

----------------------------------------------------------------------------
(* Claims about what changes a Channel row *)

\* C35: the parameter values and last_update of a Channel row change only
\* when a hardware GetParameters call for that channel has succeeded: the
\* row then holds what the hardware read gave and last_update is the time of
\* the read, not earlier than it was; a write stores nothing in the row.
C35_RowChangesOnlyOnRead ==
    [][\A k \in DOMAIN Channel \cap DOMAIN Channel' :
        (\/ Channel'[k].par # Channel[k].par
         \/ Channel'[k].last_update # Channel[k].last_update) =>
            /\ \E i \in ChannelCalls(log', "get", k) : ~log'[i].raised
            /\ Channel'[k].last_update = Some(now)
            /\ Channel[k].last_update # None =>
                   Channel[k].last_update[1] <= now
            /\ \A n \in {"VSet", "Pw"} :
                Channel'[k].par[n] =
                    Some(HwRow(hw', Board[k[1]].handler, k[2])[n])]_vars

\* a write that succeeded and put a voltage on the hardware which the row,
\* read earlier, does not hold
C35_Witness ==
    /\ pending
    /\ lastOp = "WriteParameters"
    /\ ret.ok
    /\ LET k == args.channel
       IN  /\ Channel[k].last_update # None
           /\ Channel[k].par["VSet"] = Some(0)
           /\ HwRow(hw, Board[k[1]].handler, k[2]).VSet > 0

----------------------------------------------------------------------------
(* Claims about the handles *)

\* C36: Deinitialize is called at most once for each handle: a Teardown
\* calls it once at most for a handle, a repeated Teardown does not call it
\* for a handle the Teardown before it called it for, and a Board row that
\* still holds a handle after a Teardown holds one that was not
\* deinitialized.
C36_DeinitializeOnce ==
    (pending /\ lastOp = "Teardown") =>
        /\ \A i, j \in Calls(log, "deinit") :
            log[i].handle = log[j].handle => i = j
        /\ \A o \in Faults({}, DOMAIN Board, {}) :
            LET again == deinitialize_boards(State, o, now).st.log
            IN  \A j \in Calls(again, "deinit"), i \in Calls(log, "deinit") :
                    again[j].handle # log[i].handle
        /\ \A a \in DOMAIN Board :
            Board[a].handler # None =>
                ~(\E i \in Calls(log, "deinit") :
                    /\ log[i].handle = Board[a].handler
                    /\ ~log[i].raised)

----------------------------------------------------------------------------
(* Claims about inspect and the constructors *)

\* C37: for a request with a name and a dict under params, inspect(request,
\* K) returns True exactly when the constructor of kind K accepts the
\* request's params.
C37_InspectAgreesWithConstructor ==
    [][(/\ pending' /\ lastOp' = "Inspect"
        /\ {"name", "params"} \subseteq DOMAIN args'.json_string.text.items
        /\ args'.json_string.text.items["params"].type = "dict") =>
        /\ ret'.exc = None
        /\ ret'.value <=>
            new_Ticket(args'.kind,
                       args'.json_string.text.items["params"]).exc = None]_vars

----------------------------------------------------------------------------
(* Claims about the round trip of a GetParams ticket *)

----------------------------------------------------------------------------
(* Claims about two Handlers of one process *)

OtherOps == {"OtherConstruct", "OtherSetVoltage", "OtherDel"}

\* C39: two Handlers on the fake adapter with the same board addresses are
\* isolated: no operation of the other Handler changes the hardware VSet
\* this Handler reads back for one of its channels, and so a query of this
\* Handler changes no cached VSet (the cache holds what its own
\* set_voltage left).
C39_HandlersIsolated ==
    [][pending' =>
        /\ lastOp' \in OtherOps =>
            \A k \in DOMAIN Channel :
                HwRow(hw', Board[k[1]].handler, k[2]).VSet
                    = HwRow(hw, Board[k[1]].handler, k[2]).VSet
        /\ lastOp' = "GetParams" =>
            \A k \in DOMAIN Channel :
                Channel[k].par["VSet"] # None =>
                    Channel'[k].par["VSet"] = Channel[k].par["VSet"]]_vars

====
